---- MODULE Spec2Model ----
(***************************************************************************)
(* Chain-Guard supply-chain ledger: the Merkle engine and the Blockchain   *)
(* class of services/blockchain.ts, with the hash boundary of              *)
(* services/crypto.ts.                                                     *)
(*                                                                         *)
(* Text.  A string is a sequence of tokens.  A token is a pair             *)
(* <<code, payload>>: a character is <<c, <<>>>> with c >= 1 its character *)
(* code, and the hex digest SHA256 gives for the text s is the one token   *)
(* <<0, s>>.  String concatenation (+ and template literals) is \o.  The   *)
(* digest token stands for the 64 hex characters of a digest; keeping the  *)
(* preimage inside it makes the hash collision-free and nothing more.      *)
(***************************************************************************)
EXTENDS Integers, Sequences, FiniteSets, TLC

VARIABLES
    chain,                \* Blockchain.chain: sequence of blocks
    pendingTransactions,  \* Blockchain.pendingTransactions: the pool
    revokedKeys,          \* Blockchain.revokedKeys: set of public keys
    last,                 \* the last call on the ledger and what it returned
    revokeHistory,        \* history: every key ever passed to revokeKey
    accepted,             \* history: the transactions addTransaction accepted, in order
    tampered,             \* an external write to a block has happened
    mTransactions,        \* Merkle engine input: the transactions
    mTarget,              \* Merkle engine input: the target id / leaf
    mRoot,                \* <<r>> once getMerkleRoot returned r
    mProof,               \* <<p>> once getMerkleProof returned p
    mValid,               \* <<b>> once verifyMerkleProof returned b
    mAltered,             \* <<[proof, valid]>> once an altered proof was verified
    loop,                 \* the while loop of getMerkleRoot / getMerkleProof, step by step
    mLevels,              \* <<l>> once buildMerkleTreeData returned l
    mTree,                \* <<t>> once MerkleTreeViz.buildTree returned t
    isAuditing,           \* App state: an audit is shown as running
    auditResult,          \* App state: the audit text on display
    autoAudit,            \* App state: audit after every mined block
    audits,               \* every analyzeChain call so far, in call order
    API_KEY               \* process.env.API_KEY is set

ledgerVars == <<chain, pendingTransactions, revokedKeys, last, revokeHistory, accepted,
                tampered>>
merkleVars == <<mTransactions, mTarget, mRoot, mProof, mValid, mAltered>>
treeVars == <<loop, mLevels, mTree>>
auditVars == <<isAuditing, auditResult, autoAudit, audits, API_KEY>>
vars == <<chain, pendingTransactions, revokedKeys, last, revokeHistory, accepted, tampered,
          mTransactions, mTarget, mRoot, mProof, mValid, mAltered,
          loop, mLevels, mTree,
          isAuditing, auditResult, autoAudit, audits, API_KEY>>

(***************************************************************************)
(* Bounds of the model.                                                    *)
(***************************************************************************)
MaxChain == 3    \* blocks in the chain, genesis included
MaxTxs == 2      \* transactions accepted into the ledger (pool and blocks)
MaxLeaves == 5   \* transactions handed to the Merkle engine
MaxProof == 2    \* steps of a proof handed to verifyMerkleProof directly

(***************************************************************************)
(* Text and hashing                                                        *)
(***************************************************************************)
EmptyString == <<>>

Chr(c) == <<c, <<>>>>

StrOf(codes) == [i \in 1..Len(codes) |-> Chr(codes[i])]

Digit(d) == Chr(48 + d)

\* `${n}` for a non-negative integer: its decimal digits
RECURSIVE NumToString(_)
NumToString(n) ==
    IF n < 10 THEN <<Digit(n)>>
    ELSE NumToString(n \div 10) \o <<Digit(n % 10)>>

\* SHA256(data).toString(): one digest, a function of the text alone
hashData(data) == << <<0, data>> >>

Colon == StrOf(<<58>>)

\* faulty variant: the two texts are hashed before they are joined, so a
\* colon inside them cannot pass for the delimiter
createTransactionId_Escaped(productName, details, timestamp) ==
    hashData(hashData(productName) \o Colon \o hashData(details) \o Colon
             \o NumToString(timestamp))

createTransactionId(productName, details, timestamp) ==
    hashData(productName \o Colon \o details \o Colon \o NumToString(timestamp))

(***************************************************************************)
(* Merkle engine                                                           *)
(***************************************************************************)
TxIds(transactions) == [i \in 1..Len(transactions) |-> transactions[i].id]

\* faulty variant: the unpaired last element of an odd level is promoted
\* unchanged
RootNextLevel_PromoteOdd(hashes) ==
    [k \in 1..((Len(hashes) + 1) \div 2) |->
        LET i == 2 * (k - 1) IN
        IF i + 1 < Len(hashes)
        THEN hashData(hashes[i + 1] \o hashes[i + 2])
        ELSE hashes[i + 1]]

\* the pairing loop of getMerkleRoot; i is the 0-based loop index
RootNextLevel(hashes) ==
    [k \in 1..((Len(hashes) + 1) \div 2) |->
        LET i == 2 * (k - 1) IN
        IF i + 1 < Len(hashes)
        THEN hashData(hashes[i + 1] \o hashes[i + 2])
        ELSE hashData(hashes[i + 1] \o hashes[i + 1])]

\* faulty variant: the reduction runs at least once (do ... while), so a
\* lone leaf is paired with itself
RECURSIVE RootLoop_AtLeastOnce(_)
RootLoop_AtLeastOnce(hashes) ==
    IF Len(RootNextLevel(hashes)) > 1
    THEN RootLoop_AtLeastOnce(RootNextLevel(hashes))
    ELSE RootNextLevel(hashes)[1]

RECURSIVE RootLoop(_)
RootLoop(hashes) ==
    IF Len(hashes) > 1 THEN RootLoop(RootNextLevel(hashes)) ELSE hashes[1]

getMerkleRoot(transactions) ==
    IF Len(transactions) = 0 THEN hashData(EmptyString)
    ELSE RootLoop(TxIds(transactions))

\* faulty variant: an absent target is taken for the first element
findIndex_AbsentIsZero(hashes, targetTxId) ==
    IF \E i \in 1..Len(hashes) : hashes[i] = targetTxId
    THEN (CHOOSE i \in 1..Len(hashes) :
            /\ hashes[i] = targetTxId
            /\ \A j \in 1..(i - 1) : hashes[j] # targetTxId) - 1
    ELSE 0

\* hashes.findIndex(h => h === targetTxId): 0-based, -1 when absent
findIndex(hashes, targetTxId) ==
    IF \E i \in 1..Len(hashes) : hashes[i] = targetTxId
    THEN (CHOOSE i \in 1..Len(hashes) :
            /\ hashes[i] = targetTxId
            /\ \A j \in 1..(i - 1) : hashes[j] # targetTxId) - 1
    ELSE -1

\* the pairing loop inside getMerkleProof
ProofNextLevel(hashes) ==
    [k \in 1..((Len(hashes) + 1) \div 2) |->
        LET i == 2 * (k - 1) IN
        IF i + 1 < Len(hashes)
        THEN hashData(hashes[i + 1] \o hashes[i + 2])
        ELSE hashData(hashes[i + 1] \o hashes[i + 1])]

\* faulty variant: the unpaired last element is treated as having a left sibling
ProofStep_UnpairedLeft(hashes, index) ==
    IF index % 2 = 0
    THEN IF index + 1 < Len(hashes)
         THEN [hash |-> hashes[index + 2], position |-> "right"]
         ELSE [hash |-> hashes[index], position |-> "left"]
    ELSE [hash |-> hashes[index], position |-> "left"]

\* faulty variant: the left sibling of an odd index is tagged right
ProofStep_LeftTaggedRight(hashes, index) ==
    IF index % 2 = 0
    THEN IF index + 1 < Len(hashes)
         THEN [hash |-> hashes[index + 2], position |-> "right"]
         ELSE [hash |-> hashes[index + 1], position |-> "right"]
    ELSE [hash |-> hashes[index], position |-> "right"]

\* the sibling recorded at one level; index is 0-based
ProofStep(hashes, index) ==
    IF index % 2 = 0
    THEN IF index + 1 < Len(hashes)
         THEN [hash |-> hashes[index + 2], position |-> "right"]
         ELSE [hash |-> hashes[index + 1], position |-> "right"]
    ELSE [hash |-> hashes[index], position |-> "left"]

\* faulty variant: no step is recorded at a level where the element on the
\* path is the unpaired last one
RECURSIVE ProofLoop_SkipsUnpaired(_, _, _)
ProofLoop_SkipsUnpaired(hashes, index, proof) ==
    IF Len(hashes) > 1
    THEN ProofLoop_SkipsUnpaired(
             ProofNextLevel(hashes), index \div 2,
             IF index % 2 = 0 /\ ~(index + 1 < Len(hashes))
             THEN proof
             ELSE Append(proof, ProofStep(hashes, index)))
    ELSE proof

RECURSIVE ProofLoop(_, _, _)
ProofLoop(hashes, index, proof) ==
    IF Len(hashes) > 1
    THEN ProofLoop(ProofNextLevel(hashes), index \div 2,
                   Append(proof, ProofStep(hashes, index)))
    ELSE proof

getMerkleProof(transactions, targetTxId) ==
    LET hashes == TxIds(transactions)
        index  == findIndex(hashes, targetTxId)
    IN  IF index = -1 THEN <<>> ELSE ProofLoop(hashes, index, <<>>)

\* faulty variant: the two sides are swapped, a right step puts the
\* sibling first
RECURSIVE VerifyLoop_SwappedSides(_, _, _)
VerifyLoop_SwappedSides(currentHash, proof, k) ==
    IF k > Len(proof) THEN currentHash
    ELSE LET step == proof[k] IN
         IF step.position = "right"
         THEN VerifyLoop_SwappedSides(hashData(step.hash \o currentHash), proof, k + 1)
         ELSE VerifyLoop_SwappedSides(hashData(currentHash \o step.hash), proof, k + 1)

RECURSIVE VerifyLoop(_, _, _)
VerifyLoop(currentHash, proof, k) ==
    IF k > Len(proof) THEN currentHash
    ELSE LET step == proof[k] IN
         IF step.position = "right"
         THEN VerifyLoop(hashData(currentHash \o step.hash), proof, k + 1)
         ELSE VerifyLoop(hashData(step.hash \o currentHash), proof, k + 1)

\* faulty variant: only an empty proof is compared with the root, a proof
\* with steps is accepted as it is
verifyMerkleProof_AcceptsNonEmpty(leafHash, proof, root) ==
    \/ proof # <<>>
    \/ leafHash = root

verifyMerkleProof(leafHash, proof, root) ==
    VerifyLoop(leafHash, proof, 1) = root

(***************************************************************************)
(* Transactions and the environment                                        *)
(***************************************************************************)
\* a Transaction as the submitting layer builds it (handleCreateTransaction)
MakeTx(productName, details, timestamp, signerPublicKey, signature) ==
    [productName |-> productName,
     details |-> details,
     timestamp |-> timestamp,
     id |-> createTransactionId(productName, details, timestamp),
     signerPublicKey |-> signerPublicKey,
     signature |-> signature]

TxA == MakeTx(StrOf(<<97>>), StrOf(<<120>>), 1, "keyA", "sigA")
TxB == MakeTx(StrOf(<<98>>), StrOf(<<121>>), 2, "keyB", "sigB")

\* the transactions callers hand to addTransaction
TxUniverse == {TxA, TxB}

\* the keys callers hand to revokeKey
Keys == {"keyA", "keyB"}

\* values Date.now() returns
Timestamps == {1, 2}

\* Math.floor(Math.random() * 100000) yields 0 .. NonceRange - 1
NonceRange == 100000
Nonces == {n \in {0, 7} : n < NonceRange}

(***************************************************************************)
(* Blockchain                                                              *)
(***************************************************************************)
GenesisText == StrOf(<<71, 101, 110, 101, 115, 105, 115, 32, 66, 108, 111, 99, 107>>)

\* faulty variant: the genesis hash text leaves out the trailing nonce
createGenesisBlock_NoNonce(timestamp) ==
    [header |-> [index |-> 0,
                 previousHash |-> <<Digit(0)>>,
                 timestamp |-> timestamp,
                 merkleRoot |-> hashData(GenesisText),
                 nonce |-> 0],
     transactions |-> <<>>,
     hash |-> hashData(<<Digit(0), Digit(0)>> \o NumToString(timestamp)
                       \o hashData(GenesisText))]

createGenesisBlock(timestamp) ==
    [header |-> [index |-> 0,
                 previousHash |-> <<Digit(0)>>,
                 timestamp |-> timestamp,
                 merkleRoot |-> hashData(GenesisText),
                 nonce |-> 0],
     transactions |-> <<>>,
     hash |-> hashData(<<Digit(0), Digit(0)>> \o NumToString(timestamp)
                       \o hashData(GenesisText) \o <<Digit(0)>>)]

getLatestBlock(ch) == ch[Len(ch)]

\* faulty variant: the stored hash of the block enters the hashed text
calculateBlockHash_IncludesStoredHash(block) ==
    LET h == block.header IN
    hashData(NumToString(h.index) \o h.previousHash \o NumToString(h.timestamp)
             \o h.merkleRoot \o NumToString(h.nonce) \o block.hash)

calculateBlockHash(block) ==
    LET h == block.header IN
    hashData(NumToString(h.index) \o h.previousHash \o NumToString(h.timestamp)
             \o h.merkleRoot \o NumToString(h.nonce))

\* faulty variant: the hash is computed before merkleRoot is filled in
MinedBlock_HashBeforeRoot(ch, pool, timestamp, nonce) ==
    LET previousBlock == getLatestBlock(ch)
        block == [header |-> [index |-> Len(ch),
                              previousHash |-> previousBlock.hash,
                              timestamp |-> timestamp,
                              merkleRoot |-> EmptyString,
                              nonce |-> nonce],
                  transactions |-> pool,
                  hash |-> EmptyString]
    IN  [block EXCEPT !.hash = calculateBlockHash(block),
                      !.header.merkleRoot = getMerkleRoot(pool)]

\* faulty variant: the new block links to the previous block's previousHash
MinedBlock_LinkPreviousHash(ch, pool, timestamp, nonce) ==
    LET previousBlock == getLatestBlock(ch)
        block == [header |-> [index |-> Len(ch),
                              previousHash |-> previousBlock.header.previousHash,
                              timestamp |-> timestamp,
                              merkleRoot |-> getMerkleRoot(pool),
                              nonce |-> nonce],
                  transactions |-> pool,
                  hash |-> EmptyString]
    IN  [block EXCEPT !.hash = calculateBlockHash(block)]

\* faulty variant: the index is the position of the previous block
MinedBlock_IndexOffByOne(ch, pool, timestamp, nonce) ==
    LET previousBlock == getLatestBlock(ch)
        block == [header |-> [index |-> Len(ch) - 1,
                              previousHash |-> previousBlock.hash,
                              timestamp |-> timestamp,
                              merkleRoot |-> getMerkleRoot(pool),
                              nonce |-> nonce],
                  transactions |-> pool,
                  hash |-> EmptyString]
    IN  [block EXCEPT !.hash = calculateBlockHash(block)]

\* the block minePendingTransactions builds from the current ledger
MinedBlock(ch, pool, timestamp, nonce) ==
    LET previousBlock == getLatestBlock(ch)
        transactions  == pool
        merkleRoot    == getMerkleRoot(transactions)
        block == [header |-> [index |-> Len(ch),
                              previousHash |-> previousBlock.hash,
                              timestamp |-> timestamp,
                              merkleRoot |-> merkleRoot,
                              nonce |-> nonce],
                  transactions |-> transactions,
                  hash |-> EmptyString]
    IN  [block EXCEPT !.hash = calculateBlockHash(block)]

\* faulty variant: the linkage check is missing
RECURSIVE isChainValidFrom_NoLinkage(_, _)
isChainValidFrom_NoLinkage(ch, i) ==
    IF ~(i < Len(ch)) THEN TRUE
    ELSE LET current  == ch[i + 1]
         IN  IF current.hash # calculateBlockHash(current) THEN FALSE
             ELSE IF current.header.merkleRoot # getMerkleRoot(current.transactions)
                  THEN FALSE
             ELSE isChainValidFrom_NoLinkage(ch, i + 1)

\* the loop of isChainValid from 0-based position i on
RECURSIVE isChainValidFrom(_, _)
isChainValidFrom(ch, i) ==
    IF ~(i < Len(ch)) THEN TRUE
    ELSE LET current  == ch[i + 1]
             previous == ch[i]
         IN  IF current.hash # calculateBlockHash(current) THEN FALSE
             ELSE IF current.header.previousHash # previous.hash THEN FALSE
             ELSE IF current.header.merkleRoot # getMerkleRoot(current.transactions)
                  THEN FALSE
             ELSE isChainValidFrom(ch, i + 1)

\* faulty variant: the genesis block's stored hash is re-computed as well
isChainValid_RechecksGenesis(ch) ==
    ch[1].hash = calculateBlockHash(ch[1]) /\ isChainValidFrom(ch, 1)

isChainValid(ch) == isChainValidFrom(ch, 1)

\* what a caller observes of a call: its name, arguments and return value
\* (ok: the boolean addTransaction and isChainValid return; for revokeKey,
\* which returns nothing, whether revokedKeys.size grew)
Call(op, tx, key, ok, block) ==
    [op |-> op, tx |-> tx, key |-> key, ok |-> ok, block |-> block]

\* faulty variant: the revoked set is not consulted
addTransactionAccepts_Always(revoked, tx) == TRUE

\* faulty variant: the transaction is put at the front of the pool
addTransactionPool_Unshift(pool, revoked, tx) ==
    IF tx.signerPublicKey \notin revoked THEN <<tx>> \o pool ELSE pool

\* faulty variant: the transaction is pushed before the revoked set is consulted
addTransactionPool_PushBeforeCheck(pool, revoked, tx) == Append(pool, tx)

\* faulty variant: a transaction whose signature does not verify is rejected
addTransactionAccepts_ChecksSignature(revoked, tx) ==
    /\ tx.signerPublicKey \notin revoked
    /\ tx.signature # "forged"

\* addTransaction: the pool after the call, and the value returned
addTransactionAccepts(revoked, tx) == tx.signerPublicKey \notin revoked

addTransactionPool(pool, revoked, tx) ==
    IF addTransactionAccepts(revoked, tx) THEN Append(pool, tx) ELSE pool

\* number of transactions held by the blocks of a chain
RECURSIVE TxCount(_)
TxCount(ch) ==
    IF ch = <<>> THEN 0
    ELSE Len(ch[1].transactions) + TxCount(Tail(ch))

(***************************************************************************)
(* Ledger operations                                                       *)
(***************************************************************************)
InitLedger ==
    /\ \E timestamp \in Timestamps : chain = <<createGenesisBlock(timestamp)>>
    /\ pendingTransactions = <<>>
    /\ revokedKeys = {}
    /\ last = Call("constructor", <<>>, "", TRUE, <<>>)
    /\ revokeHistory = {}
    /\ accepted = <<>>
    /\ tampered = <<>>

IdleMerkle ==
    /\ mTransactions = <<>>
    /\ mTarget = EmptyString
    /\ mRoot = <<>>
    /\ mProof = <<>>
    /\ mValid = <<>>
    /\ mAltered = <<>>

\* no loop of the Merkle engine is being stepped through and no tree was built
LoopIdle == [pc |-> "idle", hashes |-> <<>>, index |-> 0, proof |-> <<>>]

IdleTree ==
    /\ loop = LoopIdle
    /\ mLevels = <<>>
    /\ mTree = <<>>

\* useState('') / useState(false) of the audit panel, no audit requested yet
IdleAudit ==
    /\ isAuditing = FALSE
    /\ auditResult = EmptyString
    /\ autoAudit = FALSE
    /\ audits = <<>>
    /\ API_KEY = TRUE

Init == InitLedger /\ IdleMerkle /\ IdleTree /\ IdleAudit

\* faulty variant: the pool array is the array stored in the latest mined
\* block, so a push shows up in that block too
addTransaction_SharedArray(tx) ==
    /\ addTransactionAccepts(revokedKeys, tx) =>
          TxCount(chain) + Len(pendingTransactions) < MaxTxs
    /\ pendingTransactions' = addTransactionPool(pendingTransactions, revokedKeys, tx)
    /\ last' = Call("addTransaction", <<tx>>, "",
                    addTransactionAccepts(revokedKeys, tx), <<>>)
    /\ accepted' = IF last'.ok THEN Append(accepted, tx) ELSE accepted
    /\ chain' = IF last'.ok /\ Len(chain) > 1
                THEN [chain EXCEPT ![Len(chain)].transactions = Append(@, tx)]
                ELSE chain
    /\ UNCHANGED <<revokedKeys, revokeHistory, tampered>>
    /\ UNCHANGED <<merkleVars, treeVars, auditVars>>

addTransaction(tx) ==
    /\ addTransactionAccepts(revokedKeys, tx) =>
          TxCount(chain) + Len(pendingTransactions) < MaxTxs
    /\ pendingTransactions' = addTransactionPool(pendingTransactions, revokedKeys, tx)
    /\ last' = Call("addTransaction", <<tx>>, "",
                    addTransactionAccepts(revokedKeys, tx), <<>>)
    /\ accepted' = IF last'.ok THEN Append(accepted, tx) ELSE accepted
    /\ UNCHANGED <<chain, revokedKeys, revokeHistory, tampered>>
    /\ UNCHANGED <<merkleVars, treeVars, auditVars>>

\* faulty variant: the new block is put at the front of the chain
minePendingTransactionsAt_Unshift(timestamps, nonces) ==
    /\ Len(chain) < MaxChain
    /\ \E timestamp \in timestamps, nonce \in nonces :
         LET block == MinedBlock(chain, pendingTransactions, timestamp, nonce) IN
         /\ chain' = <<block>> \o chain
         /\ pendingTransactions' = <<>>
         /\ last' = Call("minePendingTransactions", <<>>, "", TRUE, <<block>>)
    /\ UNCHANGED <<revokedKeys, revokeHistory, accepted, tampered>>
    /\ UNCHANGED <<merkleVars, treeVars, auditVars>>

\* faulty variant: the pool is not cleared after mining
minePendingTransactionsAt_KeepPool(timestamps, nonces) ==
    /\ Len(chain) < MaxChain
    /\ \E timestamp \in timestamps, nonce \in nonces :
         LET block == MinedBlock(chain, pendingTransactions, timestamp, nonce) IN
         /\ chain' = Append(chain, block)
         /\ last' = Call("minePendingTransactions", <<>>, "", TRUE, <<block>>)
    /\ UNCHANGED <<pendingTransactions, revokedKeys, revokeHistory, accepted, tampered>>
    /\ UNCHANGED <<merkleVars, treeVars, auditVars>>

\* what minePendingTransactions does to the ledger, with Date.now() in
\* timestamps and the nonce in nonces
MineLedger(timestamps, nonces) ==
    /\ Len(chain) < MaxChain
    /\ \E timestamp \in timestamps, nonce \in nonces :
         LET block == MinedBlock(chain, pendingTransactions, timestamp, nonce) IN
         /\ chain' = Append(chain, block)
         /\ pendingTransactions' = <<>>
         /\ last' = Call("minePendingTransactions", <<>>, "", TRUE, <<block>>)
    /\ UNCHANGED <<revokedKeys, revokeHistory, accepted, tampered>>

\* minePendingTransactions called on the ledger alone
minePendingTransactionsAt(timestamps, nonces) ==
    /\ MineLedger(timestamps, nonces)
    /\ UNCHANGED <<merkleVars, treeVars, auditVars>>

\* faulty variant: nothing is mined when the pool is empty
minePendingTransactions_SkipEmpty ==
    /\ pendingTransactions # <<>>
    /\ minePendingTransactionsAt(Timestamps, Nonces)

minePendingTransactions == minePendingTransactionsAt(Timestamps, Nonces)

\* faulty variant: the revoked set is replaced by a set holding the new key
revokeKey_ReplacesSet(publicKey) ==
    /\ revokedKeys' = {publicKey}
    /\ revokeHistory' = revokeHistory \cup {publicKey}
    /\ last' = Call("revokeKey", <<>>, publicKey, publicKey \notin revokedKeys, <<>>)
    /\ UNCHANGED <<chain, pendingTransactions, accepted, tampered>>
    /\ UNCHANGED <<merkleVars, treeVars, auditVars>>

\* faulty variant: revoking a key also drops its transactions from the pool
revokeKey_PurgesPool(publicKey) ==
    /\ revokedKeys' = revokedKeys \cup {publicKey}
    /\ revokeHistory' = revokeHistory \cup {publicKey}
    /\ pendingTransactions' =
         SelectSeq(pendingTransactions, LAMBDA tx : tx.signerPublicKey # publicKey)
    /\ last' = Call("revokeKey", <<>>, publicKey, publicKey \notin revokedKeys, <<>>)
    /\ UNCHANGED <<chain, accepted, tampered>>
    /\ UNCHANGED <<merkleVars, treeVars, auditVars>>

\* faulty variant: revoking a key that is already revoked removes it
revokeKey_Toggle(publicKey) ==
    /\ revokedKeys' = IF publicKey \in revokedKeys
                      THEN revokedKeys \ {publicKey}
                      ELSE revokedKeys \cup {publicKey}
    /\ revokeHistory' = revokeHistory \cup {publicKey}
    /\ last' = Call("revokeKey", <<>>, publicKey, publicKey \notin revokedKeys, <<>>)
    /\ UNCHANGED <<chain, pendingTransactions, accepted, tampered>>
    /\ UNCHANGED <<merkleVars, treeVars, auditVars>>

revokeKey(publicKey) ==
    /\ revokedKeys' = revokedKeys \cup {publicKey}
    /\ revokeHistory' = revokeHistory \cup {publicKey}
    /\ last' = Call("revokeKey", <<>>, publicKey, publicKey \notin revokedKeys, <<>>)
    /\ UNCHANGED <<chain, pendingTransactions, accepted, tampered>>
    /\ UNCHANGED <<merkleVars, treeVars, auditVars>>

callIsChainValid ==
    /\ last' = Call("isChainValid", <<>>, "", isChainValid(chain), <<>>)
    /\ UNCHANGED <<chain, pendingTransactions, revokedKeys, revokeHistory, accepted,
                   tampered>>
    /\ UNCHANGED <<merkleVars, treeVars, auditVars>>

Next ==
    \/ \E tx \in TxUniverse : addTransaction(tx)
    \/ minePendingTransactions
    \/ \E publicKey \in Keys : revokeKey(publicKey)
    \/ callIsChainValid

Spec == Init /\ [][Next]_vars

(***************************************************************************)
(* External writes.  chain is a public field and blocks are plain mutable  *)
(* objects, so code outside the class can overwrite any field of a block.  *)
(* One write changes one field of one block (of one transaction of it) and *)
(* recomputes nothing: the stored hash and merkleRoot stay as they were.   *)
(***************************************************************************)
HeaderFields == {"index", "previousHash", "timestamp", "merkleRoot", "nonce"}
TxFields == {"tx.id", "tx.productName", "tx.details", "tx.timestamp",
             "tx.signerPublicKey", "tx.signature"}

Exclaim == StrOf(<<33>>)

\* transaction tx with one field overwritten by a different value
TamperTx(tx, field) ==
    CASE field = "tx.id" -> [tx EXCEPT !.id = hashData(tx.id)]
      [] field = "tx.productName" -> [tx EXCEPT !.productName = @ \o Exclaim]
      [] field = "tx.details" -> [tx EXCEPT !.details = @ \o Exclaim]
      [] field = "tx.timestamp" -> [tx EXCEPT !.timestamp = @ + 1]
      [] field = "tx.signerPublicKey" -> [tx EXCEPT !.signerPublicKey = "keyM"]
      [] field = "tx.signature" -> [tx EXCEPT !.signature = "forged"]

\* block b with one field overwritten by a different value; k is the
\* position of the transaction written to
TamperBlock(b, field, k) ==
    CASE field = "index" -> [b EXCEPT !.header.index = @ + 1]
      [] field = "previousHash" -> [b EXCEPT !.header.previousHash = hashData(@)]
      [] field = "timestamp" -> [b EXCEPT !.header.timestamp = @ + 1]
      [] field = "merkleRoot" -> [b EXCEPT !.header.merkleRoot = hashData(@)]
      [] field = "nonce" -> [b EXCEPT !.header.nonce = @ + 1]
      [] field = "hash" -> [b EXCEPT !.hash = hashData(@)]
      [] field \in TxFields ->
           [b EXCEPT !.transactions[k] = TamperTx(@, field)]

Tamper ==
    /\ tampered = <<>>
    /\ \E i \in 1..Len(chain), field \in HeaderFields \cup {"hash"} \cup TxFields :
         \E k \in 1..(IF field \in TxFields THEN Len(chain[i].transactions) ELSE 1) :
           /\ chain' = [chain EXCEPT ![i] = TamperBlock(@, field, k)]
           /\ tampered' = <<[block |-> i - 1, field |-> field]>>
    /\ last' = Call("tamper", <<>>, "", TRUE, <<>>)
    /\ UNCHANGED <<pendingTransactions, revokedKeys, revokeHistory, accepted>>
    /\ UNCHANGED <<merkleVars, treeVars, auditVars>>

\* while blocks are written to from outside, one clock reading and one
\* nonce stand for the values mining picks
TamperClock == {t \in Timestamps : \A u \in Timestamps : u <= t}
TamperNonces == {n \in Nonces : \A m \in Nonces : m <= n}

NextTamper ==
    \/ \E tx \in TxUniverse : addTransaction(tx)
    \/ minePendingTransactionsAt(TamperClock, TamperNonces)
    \/ \E publicKey \in Keys : revokeKey(publicKey)
    \/ callIsChainValid
    \/ Tamper

SpecTamper == Init /\ [][NextTamper]_vars

(***************************************************************************)
(* The Merkle engine called on its own: the exported functions take any    *)
(* Transaction[] and any strings.                                          *)
(***************************************************************************)
\* a transaction built outside the submit handler, with a chosen id
WithId(tx, id) == [tx EXCEPT !.id = id]

\* its id is the text of the Merkle node above TxA and TxB
TxC == WithId(MakeTx(StrOf(<<99>>), StrOf(<<122>>), 3, "keyA", "sigC"),
              hashData(TxA.id \o TxB.id))

MerkleTxs == {TxA, TxB, TxC}

\* an id no transaction of MerkleTxs has
AbsentId == createTransactionId(StrOf(<<100>>), StrOf(<<119>>), 4)

MerkleTargets == {tx.id : tx \in MerkleTxs} \cup {AbsentId}

SeqsUpTo(S, n) == UNION {[1..k -> S] : k \in 0..n}

InitMerkle ==
    /\ InitLedger
    /\ mTransactions \in SeqsUpTo(MerkleTxs, MaxLeaves)
    /\ mTarget \in MerkleTargets
    /\ mRoot = <<>>
    /\ mProof = <<>>
    /\ mValid = <<>>
    /\ mAltered = <<>>
    /\ IdleTree
    /\ IdleAudit

callGetMerkleRoot ==
    /\ mRoot = <<>>
    /\ mRoot' = <<getMerkleRoot(mTransactions)>>
    /\ UNCHANGED <<mTransactions, mTarget, mProof, mValid, mAltered>>
    /\ UNCHANGED <<ledgerVars, treeVars, auditVars>>

callGetMerkleProof ==
    /\ mProof = <<>>
    /\ mProof' = <<getMerkleProof(mTransactions, mTarget)>>
    /\ UNCHANGED <<mTransactions, mTarget, mRoot, mValid, mAltered>>
    /\ UNCHANGED <<ledgerVars, treeVars, auditVars>>

\* verifyMerkleProof(mTarget, proof, root) on the proof and root at hand
callVerifyMerkleProof ==
    /\ mRoot # <<>>
    /\ mProof # <<>>
    /\ mValid = <<>>
    /\ mValid' = <<verifyMerkleProof(mTarget, mProof[1], mRoot[1])>>
    /\ UNCHANGED <<mTransactions, mTarget, mRoot, mProof, mAltered>>
    /\ UNCHANGED <<ledgerVars, treeVars, auditVars>>

\* the values a caller puts in place of the hash h of a proof step: h with
\* one character more, and two other digests
Replacements(h) == {h \o Exclaim, TxA.id, TxC.id} \ {h}

\* verifyMerkleProof(mTarget, altered, root), altered being the proof at
\* hand with the hash of one step replaced
callVerifyAltered ==
    /\ mRoot # <<>>
    /\ mProof # <<>>
    /\ mAltered = <<>>
    /\ \E k \in 1..Len(mProof[1]) :
         \E h \in Replacements(mProof[1][k].hash) :
           LET altered == [mProof[1] EXCEPT ![k].hash = h] IN
           mAltered' = <<[proof |-> altered,
                          valid |-> verifyMerkleProof(mTarget, altered, mRoot[1])]>>
    /\ UNCHANGED <<mTransactions, mTarget, mRoot, mProof, mValid>>
    /\ UNCHANGED <<ledgerVars, treeVars, auditVars>>

NextMerkle ==
    \/ callGetMerkleRoot
    \/ callGetMerkleProof
    \/ callVerifyMerkleProof
    \/ callVerifyAltered

SpecMerkle == InitMerkle /\ [][NextMerkle]_vars

TargetPresent == \E i \in 1..Len(mTransactions) : mTransactions[i].id = mTarget

\* C1: for every sequence of at least one transaction (ids may repeat) and
\* every transaction t in it, verifying t.id with the proof built for t.id
\* against the root of the sequence gives true.
C1_ProofCompleteness ==
    (mValid # <<>> /\ TargetPresent) => mValid[1] = TRUE

\* a five-leaf sequence holding the target twice has been verified through
\* a three-step proof
C1_Witness ==
    /\ mValid = <<TRUE>>
    /\ Len(mTransactions) = 5
    /\ Cardinality({i \in 1..5 : mTransactions[i].id = mTarget}) >= 2
    /\ mTransactions[5].id # mTransactions[4].id
    /\ Len(mProof[1]) = 3

(***************************************************************************)
(* Properties of the ledger                                                *)
(***************************************************************************)
LastBlock(ch) == ch[Len(ch)]

\* C2: isChainValid() is true on a fresh ledger and stays true in every
\* state reached by addTransaction, minePendingTransactions and revokeKey,
\* whatever timestamp and nonce mining picks.
C2_ChainAlwaysValid ==
    /\ isChainValid(chain) = TRUE
    /\ last.op = "isChainValid" => last.ok = TRUE

\* isChainValid has answered on a three-block chain whose mined blocks
\* differ in timestamp and nonce, hold transactions, with a key revoked
C2_Witness ==
    /\ last.op = "isChainValid"
    /\ last.ok = TRUE
    /\ Len(chain) = 3
    /\ chain[2].header.timestamp # chain[3].header.timestamp
    /\ chain[2].header.nonce # chain[3].header.nonce
    /\ chain[2].transactions # <<>>
    /\ chain[3].transactions # <<>>
    /\ revokedKeys # {}

\* C4: addTransaction(tx) returns false exactly when tx.signerPublicKey has
\* been passed to revokeKey before, whatever the pool and the chain hold.
C4_RejectIffRevoked ==
    last.op = "addTransaction" =>
        (last.ok = FALSE <=> last.tx[1].signerPublicKey \in revokeHistory)

\* TxA was accepted and mined, its key revoked afterwards, TxB sits in the
\* pool, and a further TxA has just been rejected
C4_Witness ==
    /\ last.op = "addTransaction"
    /\ last.ok = FALSE
    /\ last.tx = <<TxA>>
    /\ Len(chain) >= 2
    /\ chain[2].transactions = <<TxA>>
    /\ pendingTransactions = <<TxB>>

\* C5: when addTransaction(tx) returns true the new pool is the old pool
\* with tx appended, and the chain and the revoked set are unchanged.
C5_AcceptAppends ==
    [][(last'.op = "addTransaction" /\ last'.ok = TRUE) =>
          /\ pendingTransactions' = Append(pendingTransactions, last'.tx[1])
          /\ chain' = chain
          /\ revokedKeys' = revokedKeys]_vars

\* a second, different transaction has just been accepted into the pool of
\* a ledger with a mined block and a revoked key
C5_Witness ==
    /\ last.op = "addTransaction"
    /\ last.ok = TRUE
    /\ Len(pendingTransactions) = 2
    /\ pendingTransactions[1] # pendingTransactions[2]
    /\ Len(chain) >= 2
    /\ revokedKeys # {}

\* C6: addTransaction(tx) for a revoked signer returns the value false and
\* leaves the pool, the chain and the revoked set exactly as they were.
C6_RejectChangesNothing ==
    [][(last'.op = "addTransaction"
          /\ last'.tx[1].signerPublicKey \in revokedKeys) =>
          /\ last'.ok = FALSE
          /\ pendingTransactions' = pendingTransactions
          /\ chain' = chain
          /\ revokedKeys' = revokedKeys]_vars

\* a transaction of a revoked signer has just been rejected while the pool
\* and the chain hold transactions
C6_Witness ==
    /\ last.op = "addTransaction"
    /\ last.ok = FALSE
    /\ last.tx[1].signerPublicKey \in revokedKeys
    /\ pendingTransactions # <<>>
    /\ Len(chain) >= 2

\* C7: after every minePendingTransactions() the pool is empty, the chain
\* is one block longer, the new last block's previousHash is the hash of
\* the block that was last before, and the revoked set is unchanged.
C7_MineEffect ==
    [][last'.op = "minePendingTransactions" =>
          /\ pendingTransactions' = <<>>
          /\ Len(chain') = Len(chain) + 1
          /\ LastBlock(chain').header.previousHash = LastBlock(chain).hash
          /\ revokedKeys' = revokedKeys]_vars

\* a non-empty pool has just been mined on top of a mined block, with a
\* key revoked
C7_Witness ==
    /\ last.op = "minePendingTransactions"
    /\ Len(chain) = 3
    /\ chain[3].transactions # <<>>
    /\ revokedKeys # {}

\* C8: the mined block holds the pool of the time of the call in order, the
\* getMerkleRoot of it, the old chain length as index, and the hash of its
\* header fields index, previousHash, timestamp, merkleRoot, nonce
\* concatenated; it is the block returned and appended.
C8_MinedBlockContents ==
    [][last'.op = "minePendingTransactions" =>
          LET b == LastBlock(chain') IN
          /\ b.transactions = pendingTransactions
          /\ b.header.merkleRoot = getMerkleRoot(pendingTransactions)
          /\ b.header.index = Len(chain)
          /\ b.hash = hashData(NumToString(b.header.index)
                               \o b.header.previousHash
                               \o NumToString(b.header.timestamp)
                               \o b.header.merkleRoot
                               \o NumToString(b.header.nonce))
          /\ b.hash = calculateBlockHash(b)
          /\ last'.block = <<b>>]_vars

\* a pool of two different transactions has just been mined into block 2
C8_Witness ==
    /\ last.op = "minePendingTransactions"
    /\ Len(chain) = 3
    /\ Len(chain[3].transactions) = 2
    /\ chain[3].transactions[1] # chain[3].transactions[2]
    /\ last.block = <<chain[3]>>

HashCheck(ch, i) == ch[i + 1].hash = calculateBlockHash(ch[i + 1])
LinkCheck(ch, i) == ch[i + 1].header.previousHash = ch[i].hash
RootCheck(ch, i) ==
    ch[i + 1].header.merkleRoot = getMerkleRoot(ch[i + 1].transactions)

AllChecks(ch) ==
    \A i \in 1..(Len(ch) - 1) :
        HashCheck(ch, i) /\ LinkCheck(ch, i) /\ RootCheck(ch, i)

\* C3: overwriting any field of a mined block (a header field, the stored
\* hash, or a field of one of its transactions such as details) without
\* recomputing hash and merkleRoot makes isChainValid() return false.
\* Stated for the blocks after genesis only.
C3_TamperDetected ==
    (tampered # <<>> /\ tampered[1].block >= 1) => isChainValid(chain) = FALSE

\* C10: on any chain contents isChainValid() is true exactly when every
\* block from index 1 on passes the hash check, the linkage check and the
\* Merkle root check.
C10_ValidIffAllChecks ==
    /\ isChainValid(chain) = AllChecks(chain)
    /\ last.op = "isChainValid" => last.ok = AllChecks(chain)

\* isChainValid has returned false on a three-block chain where the
\* linkage check of block 1 is the only check that fails
C10_Witness ==
    /\ last.op = "isChainValid"
    /\ last.ok = FALSE
    /\ Len(chain) = 3
    /\ ~LinkCheck(chain, 1)
    /\ HashCheck(chain, 1) /\ RootCheck(chain, 1)
    /\ HashCheck(chain, 2) /\ LinkCheck(chain, 2) /\ RootCheck(chain, 2)

(***************************************************************************)
(* Properties of revocation                                                *)
(***************************************************************************)
\* C11: revokeKey(k) with k already revoked leaves the revoked set and its
\* size, the pool and the chain unchanged; with a new k it adds exactly k.
C11_RevokeIdempotent ==
    [][last'.op = "revokeKey" =>
          /\ revokedKeys' = revokedKeys \cup {last'.key}
          /\ last'.key \in revokedKeys =>
                /\ revokedKeys' = revokedKeys
                /\ Cardinality(revokedKeys') = Cardinality(revokedKeys)
          /\ last'.ok = (last'.key \notin revokedKeys)
          /\ pendingTransactions' = pendingTransactions
          /\ chain' = chain]_vars

\* the one revoked key has just been revoked again (the set did not grow),
\* with another key left unrevoked, a pooled transaction and a mined block
C11_Witness ==
    /\ last.op = "revokeKey"
    /\ last.ok = FALSE
    /\ revokedKeys = {last.key}
    /\ pendingTransactions # <<>>
    /\ Len(chain) >= 2

\* C12: revokeKey(k) leaves the pool and the chain unchanged even when they
\* hold transactions signed by k, a pooled transaction of k is still put
\* into the next mined block, and isChainValid() is unaffected.
C12_RevocationForwardLooking ==
    [][/\ last'.op = "revokeKey" =>
            /\ pendingTransactions' = pendingTransactions
            /\ chain' = chain
            /\ isChainValid(chain') = isChainValid(chain)
       /\ last'.op = "minePendingTransactions" =>
            /\ Len(LastBlock(chain').transactions) = Len(pendingTransactions)
            /\ \A i \in 1..Len(pendingTransactions) :
                 LastBlock(chain').transactions[i] = pendingTransactions[i]
            /\ isChainValid(chain') = isChainValid(chain)]_vars

SignedByRevoked(transactions) ==
    \E i \in 1..Len(transactions) :
        transactions[i].signerPublicKey \in revokedKeys

\* a transaction whose signer was revoked while it sat in the pool has just
\* been mined, an earlier block holds another one, and the chain is valid
C12_Witness ==
    /\ last.op = "minePendingTransactions"
    /\ Len(chain) = 3
    /\ SignedByRevoked(chain[3].transactions)
    /\ SignedByRevoked(chain[2].transactions)
    /\ isChainValid(chain) = TRUE

\* C13: once revokeKey(k) has been called k is in the revoked set in every
\* later state, and every later addTransaction signed by k returns false.
C13_RevokedForever ==
    /\ revokeHistory \subseteq revokedKeys
    /\ (last.op = "addTransaction"
          /\ last.tx[1].signerPublicKey \in revokeHistory) => last.ok = FALSE

\* both keys were revoked, blocks were mined since, and a transaction of a
\* revoked signer has just been rejected
C13_Witness ==
    /\ last.op = "addTransaction"
    /\ last.ok = FALSE
    /\ revokeHistory = Keys
    /\ Len(chain) = 3
    /\ accepted # <<>>

(***************************************************************************)
(* Properties of the chain as a whole                                      *)
(***************************************************************************)
IsPrefix(a, b) ==
    /\ Len(a) <= Len(b)
    /\ \A i \in 1..Len(a) : b[i] = a[i]

\* the transactions of all blocks in chain order
RECURSIVE ChainTransactions(_)
ChainTransactions(ch) ==
    IF ch = <<>> THEN <<>>
    ELSE ch[1].transactions \o ChainTransactions(Tail(ch))

\* C14: across every addTransaction, minePendingTransactions and revokeKey
\* step the old chain is a prefix of the new chain with every block as it
\* was; only mining lengthens it, so a transaction pooled after a block
\* was mined never appears in that block.
C14_ChainAppendOnly ==
    [][/\ IsPrefix(chain, chain')
       /\ last'.op # "minePendingTransactions" => chain' = chain]_vars

\* a transaction has just been accepted into the pool after a block
\* holding another transaction was mined, and it is not in that block
C14_Witness ==
    /\ last.op = "addTransaction"
    /\ last.ok = TRUE
    /\ Len(chain) >= 2
    /\ LastBlock(chain).transactions # <<>>
    /\ \A i \in 1..Len(LastBlock(chain).transactions) :
         LastBlock(chain).transactions[i] # last.tx[1]
    /\ pendingTransactions = last.tx

\* C15: the transactions of all blocks in chain order followed by the pool
\* are exactly the transactions addTransaction accepted, in acceptance
\* order; none is lost, duplicated or reordered.
C15_TransactionConservation ==
    ChainTransactions(chain) \o pendingTransactions = accepted

\* two different accepted transactions, the first mined and the second in
\* the pool, a later empty block, and a rejected third call
C15_Witness ==
    /\ Len(accepted) = 2
    /\ accepted[1] # accepted[2]
    /\ Len(chain) = 3
    /\ chain[2].transactions = <<accepted[1]>>
    /\ pendingTransactions = <<accepted[2]>>
    /\ last.op = "addTransaction"
    /\ last.ok = FALSE

\* C16: the block at position i of the chain has header.index = i, for
\* every i from 0 to length - 1.
C16_IndexContiguous ==
    \A i \in 1..Len(chain) : chain[i].header.index = i - 1

\* the third block has just been mined
C16_Witness ==
    /\ last.op = "minePendingTransactions"
    /\ Len(chain) = 3
    /\ chain[3].header.index = 2
    /\ chain[3].transactions # <<>>

\* C17: every block of the chain, the genesis block included, stores the
\* hash calculateBlockHash gives for its header; for the genesis block that
\* is the hash of index 0, previousHash "0", its timestamp, its merkleRoot
\* and nonce 0 concatenated.
C17_StoredHashRecomputable ==
    /\ \A i \in 1..Len(chain) : chain[i].hash = calculateBlockHash(chain[i])
    /\ chain[1].hash =
          hashData(NumToString(0) \o <<Digit(0)>>
                   \o NumToString(chain[1].header.timestamp)
                   \o chain[1].header.merkleRoot \o NumToString(0))

\* a genesis block of the later timestamp followed by two mined blocks,
\* the last one holding transactions
C17_Witness ==
    /\ last.op = "minePendingTransactions"
    /\ Len(chain) = 3
    /\ chain[1].header.timestamp = 2
    /\ chain[1].header.timestamp # chain[3].header.timestamp
    /\ chain[3].transactions # <<>>

\* C18: every block of the chain, the genesis block included, stores the
\* merkleRoot getMerkleRoot gives for the block's own transactions.
C18_StoredRootRecomputable ==
    \A i \in 1..Len(chain) :
        chain[i].header.merkleRoot = getMerkleRoot(chain[i].transactions)

(***************************************************************************)
(* Properties of the Merkle root on short sequences                        *)
(***************************************************************************)
\* C19: the root returned for the empty transaction sequence is the hash
\* of a sentinel text, a value different from the hash of the empty string.
C19_EmptyRootIsSentinel ==
    (mRoot # <<>> /\ mTransactions = <<>>) =>
        /\ mRoot[1] # hashData(EmptyString)
        /\ mRoot[1][1][2] # EmptyString

\* C20 as stated: the root of a single-transaction sequence [t] is
\* hash(t.id ++ t.id).
C20_SingleRootSelfPaired ==
    (mRoot # <<>> /\ Len(mTransactions) = 1) =>
        mRoot[1] = hashData(mTransactions[1].id \o mTransactions[1].id)

\* C20: the root of a single-transaction sequence [t] is t.id itself, the
\* reduction loop not being entered, and the empty proof built for t.id
\* verifies against it.
C20_SingleRootIsLeaf ==
    /\ (mRoot # <<>> /\ Len(mTransactions) = 1) =>
          mRoot[1] = mTransactions[1].id
    /\ (mValid # <<>> /\ Len(mTransactions) = 1 /\ TargetPresent) =>
          /\ mProof[1] = <<>>
          /\ mValid[1] = TRUE

\* the root and the proof of a one-leaf sequence have been computed for
\* its own id and verified
C20_Witness ==
    /\ Len(mTransactions) = 1
    /\ mTarget = mTransactions[1].id
    /\ mRoot = <<mTarget>>
    /\ mProof = <<(<<>>)>>
    /\ mValid = <<TRUE>>

(***************************************************************************)
(* Properties of the Merkle reduction and of proofs                        *)
(***************************************************************************)
\* the values `hashes` takes in the while loop of getMerkleRoot, first to last
RECURSIVE RootLevels(_)
RootLevels(hashes) ==
    IF Len(hashes) > 1
    THEN <<hashes>> \o RootLevels(RootNextLevel(hashes))
    ELSE <<hashes>>

\* C21: every level of getMerkleRoot reduces each adjacent pair (x, y) to
\* hash(x ++ y) in order, and the last element of a level of odd length
\* (>= 3) is combined with itself, never promoted; the root of [a, b, c] is
\* hash(hash(a ++ b) ++ hash(c ++ c)).
C21_OddLevelDuplication ==
    (mRoot # <<>> /\ Len(mTransactions) >= 1) =>
        LET levels == RootLevels(TxIds(mTransactions)) IN
        /\ mRoot[1] = levels[Len(levels)][1]
        /\ \A j \in 1..(Len(levels) - 1) :
              LET cur == levels[j]
                  nxt == levels[j + 1]
              IN  /\ Len(nxt) = (Len(cur) + 1) \div 2
                  /\ \A k \in 1..(Len(cur) \div 2) :
                        nxt[k] = hashData(cur[2 * k - 1] \o cur[2 * k])
                  /\ Len(cur) % 2 = 1 =>
                        nxt[Len(nxt)] = hashData(cur[Len(cur)] \o cur[Len(cur)])
        /\ Len(mTransactions) = 3 =>
              mRoot[1] = hashData(hashData(mTransactions[1].id \o mTransactions[2].id)
                                  \o hashData(mTransactions[3].id \o mTransactions[3].id))

\* the root of five leaves has been computed: levels of 5, 3, 2 and 1
\* elements, two of them odd, with an unpaired leaf unlike its neighbour
C21_Witness ==
    /\ mRoot # <<>>
    /\ Len(mTransactions) = 5
    /\ mTransactions[5].id # mTransactions[4].id
    /\ Len(RootLevels(TxIds(mTransactions))) = 4
    /\ Len(RootLevels(TxIds(mTransactions))[2]) = 3

(***************************************************************************)
(* verifyMerkleProof called on its own, with any leaf, proof and root      *)
(***************************************************************************)
ProofHashes == {TxA.id, TxB.id, TxC.id}

\* MerkleProofStep values
ProofSteps == [hash : ProofHashes, position : {"left", "right"}]

VerifyLeaves == {TxA.id, TxB.id, TxC.id}

VerifyRoots == {TxA.id, TxC.id, hashData(TxA.id \o TxC.id), hashData(TxC.id \o TxA.id)}

InitVerify ==
    /\ InitLedger
    /\ mTransactions = <<>>
    /\ mTarget \in VerifyLeaves
    /\ mProof \in {<<proof>> : proof \in SeqsUpTo(ProofSteps, MaxProof)}
    /\ mRoot \in {<<root>> : root \in VerifyRoots}
    /\ mValid = <<>>
    /\ mAltered = <<>>
    /\ IdleTree
    /\ IdleAudit

NextVerify == callVerifyMerkleProof

SpecVerify == InitVerify /\ [][NextVerify]_vars

\* the value a proof folds to from a leaf, taken from its last step back
RECURSIVE FoldProof(_, _)
FoldProof(leaf, proof) ==
    IF proof = <<>> THEN leaf
    ELSE LET current == FoldProof(leaf, SubSeq(proof, 1, Len(proof) - 1))
             step    == proof[Len(proof)]
         IN  IF step.position = "right"
             THEN hashData(current \o step.hash)
             ELSE hashData(step.hash \o current)

\* C22: verifyMerkleProof(leaf, proof, root) is true exactly when folding
\* the proof from the leaf in order (right: hash(current ++ step.hash),
\* left: hash(step.hash ++ current)) gives root; with an empty proof that
\* is leaf = root.
C22_VerifyIffFoldIsRoot ==
    mValid # <<>> =>
        /\ mValid[1] = (FoldProof(mTarget, mProof[1]) = mRoot[1])
        /\ mProof[1] = <<>> => mValid[1] = (mTarget = mRoot[1])

\* a two-step proof with a right step and then a left step has verified
C22_Witness ==
    /\ mValid = <<TRUE>>
    /\ Len(mProof[1]) = 2
    /\ mProof[1][1].position = "right"
    /\ mProof[1][2].position = "left"
    /\ mTransactions = <<>>

\* C23: for every sequence, every member t and every step of the proof
\* built for t.id, the proof with that one step's hash replaced by a
\* different value does not verify against the root of the sequence.
C23_AlteredProofRejected ==
    (mAltered # <<>> /\ TargetPresent) => mAltered[1].valid = FALSE

\* a three-step proof of a five-leaf sequence was verified with its last
\* step's hash replaced, after the proof itself had verified
C23_Witness ==
    /\ mAltered # <<>>
    /\ mAltered[1].valid = FALSE
    /\ mValid = <<TRUE>>
    /\ Len(mTransactions) = 5
    /\ Len(mProof[1]) = 3
    /\ mAltered[1].proof[3] # mProof[1][3]
    /\ mAltered[1].proof[1] = mProof[1][1]

\* C24: getMerkleProof(seq, target) is the empty sequence whenever target
\* is the id of no transaction of seq, the empty seq included.
C24_AbsentTargetEmptyProof ==
    (mProof # <<>> /\ ~TargetPresent) => mProof[1] = <<>>

\* the proof of an id absent from a five-leaf sequence has been returned
C24_Witness ==
    /\ mProof = <<(<<>>)>>
    /\ ~TargetPresent
    /\ Len(mTransactions) = 5
    /\ mTarget = AbsentId

\* the values `hashes` takes in the while loop of getMerkleProof
RECURSIVE ProofLevels(_)
ProofLevels(hashes) ==
    IF Len(hashes) > 1
    THEN <<hashes>> \o ProofLevels(ProofNextLevel(hashes))
    ELSE <<hashes>>

\* the value of `index` (0-based) at level j, level 1 being the leaves
RECURSIVE PathIndex(_, _)
PathIndex(index, j) ==
    IF j = 1 THEN index ELSE PathIndex(index, j - 1) \div 2

\* C25: for a target present in seq the proof holds, level by level from
\* the leaves, the sibling of the node on the path from the target's first
\* occurrence: at an even path index the next element of the level (the
\* element itself when it has no pair) tagged right, at an odd one the
\* previous element tagged left; the path index is halved from level to level.
C25_ProofRecordsSiblings ==
    (mProof # <<>> /\ TargetPresent) =>
        LET levels == ProofLevels(TxIds(mTransactions))
            first  == (CHOOSE i \in 1..Len(mTransactions) :
                          /\ mTransactions[i].id = mTarget
                          /\ \A j \in 1..(i - 1) : mTransactions[j].id # mTarget) - 1
        IN  /\ Len(mProof[1]) = Len(levels) - 1
            /\ \A j \in 1..Len(mProof[1]) :
                  LET cur == levels[j]
                      idx == PathIndex(first, j)
                  IN  IF idx % 2 = 0
                      THEN /\ mProof[1][j].position = "right"
                           /\ mProof[1][j].hash =
                                 IF idx + 2 <= Len(cur) THEN cur[idx + 2] ELSE cur[idx + 1]
                      ELSE /\ mProof[1][j].position = "left"
                           /\ mProof[1][j].hash = cur[idx]

\* the proof of the unpaired fifth leaf: itself tagged right at the first
\* two levels, then the left sibling at the third
C25_Witness ==
    /\ mProof # <<>>
    /\ Len(mTransactions) = 5
    /\ mTransactions[5].id = mTarget
    /\ \A i \in 1..4 : mTransactions[i].id # mTarget
    /\ Len(mProof[1]) = 3
    /\ mProof[1][1] = [hash |-> mTarget, position |-> "right"]
    /\ mProof[1][2].position = "right"
    /\ mProof[1][3].position = "left"

(***************************************************************************)
(* calculateBlockHash called on its own: a public method taking any Block  *)
(***************************************************************************)
\* blocks handed to calculateBlockHash: two headers, each with several
\* transaction lists and stored hashes
HashBlocks ==
    LET genesis == createGenesisBlock(1)
        mined   == MinedBlock(<<genesis>>, <<TxA>>, 2, 7)
    IN  {[header |-> b.header, transactions |-> transactions, hash |-> hash] :
            b \in {genesis, mined},
            transactions \in {<<>>, <<TxA>>, <<TxB, TxA>>},
            hash \in {EmptyString, genesis.hash, mined.hash}}

InitBlockHash ==
    /\ chain \in [1..2 -> HashBlocks]
    /\ pendingTransactions = <<>>
    /\ revokedKeys = {}
    /\ last = Call("constructor", <<>>, "", TRUE, <<>>)
    /\ revokeHistory = {}
    /\ accepted = <<>>
    /\ tampered = <<>>
    /\ IdleMerkle
    /\ IdleTree
    /\ IdleAudit

\* calculateBlockHash(chain[i]); last.block holds the argument and the result
callCalculateBlockHash ==
    /\ \E i \in 1..Len(chain) :
         last' = Call("calculateBlockHash", <<>>, "", TRUE,
                      <<chain[i], [hash |-> calculateBlockHash(chain[i])]>>)
    /\ UNCHANGED <<chain, pendingTransactions, revokedKeys, revokeHistory, accepted,
                   tampered>>
    /\ UNCHANGED <<merkleVars, treeVars, auditVars>>

NextBlockHash == callCalculateBlockHash

SpecBlockHash == InitBlockHash /\ [][NextBlockHash]_vars

\* C26: the result of calculateBlockHash is the same for every block with
\* the header of its argument, whatever the block's transactions and
\* stored hash are, and the call changes neither the blocks nor the rest
\* of the ledger.
C26_BlockHashOfHeaderOnly ==
    [][last'.op = "calculateBlockHash" =>
          /\ \A b \in HashBlocks \cup {chain'[j] : j \in 1..Len(chain')} :
                b.header = last'.block[1].header =>
                    calculateBlockHash(b) = last'.block[2].hash
          /\ chain' = chain
          /\ pendingTransactions' = pendingTransactions
          /\ revokedKeys' = revokedKeys]_vars

\* the hash of a block has been computed next to a block with the same
\* header and other transactions and stored hash
C26_Witness ==
    /\ last.op = "calculateBlockHash"
    /\ last.block[1] = chain[1]
    /\ chain[1].header = chain[2].header
    /\ chain[1].transactions # chain[2].transactions
    /\ chain[1].hash # chain[2].hash
    /\ chain[1].transactions # <<>>

(***************************************************************************)
(* What the ledger does not look at                                        *)
(***************************************************************************)
\* C27: for two transactions with the same signerPublicKey addTransaction
\* returns the same value and changes the pool length alike, whatever
\* their signature, id, productName, details and timestamp are; and the
\* result of isChainValid stays the same when the signature or the
\* signerPublicKey of any transaction of any block is overwritten.
C27_SignaturesNeverChecked ==
    /\ \A tx \in TxUniverse :
          \A field \in TxFields \ {"tx.signerPublicKey"} :
             LET other == TamperTx(tx, field) IN
             /\ addTransactionAccepts(revokedKeys, other)
                   = addTransactionAccepts(revokedKeys, tx)
             /\ Len(addTransactionPool(pendingTransactions, revokedKeys, other))
                   = Len(addTransactionPool(pendingTransactions, revokedKeys, tx))
    /\ \A i \in 1..Len(chain) :
          \A k \in 1..Len(chain[i].transactions) :
             \A field \in {"tx.signature", "tx.signerPublicKey"} :
                isChainValid([chain EXCEPT ![i] = TamperBlock(@, field, k)])
                   = isChainValid(chain)
    /\ (/\ last.op = "isChainValid"
        /\ tampered # <<>>
        /\ tampered[1].field \in {"tx.signature", "tx.signerPublicKey"}) => last.ok = TRUE

\* isChainValid has answered true on a chain in which the signature of a
\* mined transaction was overwritten, with a key revoked and a
\* transaction waiting in the pool
C27_Witness ==
    /\ last.op = "isChainValid"
    /\ last.ok = TRUE
    /\ tampered = <<[block |-> 1, field |-> "tx.signature"]>>
    /\ chain[2].transactions[1].signature = "forged"
    /\ revokedKeys # {}
    /\ pendingTransactions # <<>>

(***************************************************************************)
(* The application's handlers (App.tsx) over the ledger.  userKeys is set  *)
(* by the effect that runs on load, before any handler can run.            *)
(***************************************************************************)
\* signData(privateKeyHex, data): the signature of hashData(data) under the
\* key, a value fixed by the key and the digest.  The catch branch (""
\* returned) is not taken for a key generateKeyPair made.
signData(privateKeyHex, data) == [signedBy |-> privateKeyHex, msgHash |-> hashData(data)]

\* generateKeyPair() with the label added on load
UserKeys == [privateKey |-> "privA", publicKey |-> "keyA", label |-> "Farm Operator #1"]

\* `${productName}:${productDetails}:${timestamp}`
SignedText(productName, productDetails, timestamp) ==
    productName \o Colon \o productDetails \o Colon \o NumToString(timestamp)

\* faulty variant: the signature is computed over the id, as the comment
\* in the handler says, not over the text
NewTransaction_SignsId(productName, productDetails, timestamp, userKeys) ==
    MakeTx(productName, productDetails, timestamp, userKeys.publicKey,
           signData(userKeys.privateKey,
                    createTransactionId(productName, productDetails, timestamp)))

\* newTx of handleCreateTransaction
NewTransaction(productName, productDetails, timestamp, userKeys) ==
    MakeTx(productName, productDetails, timestamp, userKeys.publicKey,
           signData(userKeys.privateKey,
                    SignedText(productName, productDetails, timestamp)))

\* the texts typed into the form: "a", "a:b" and "c", "b:c"
ProductNames == {StrOf(<<97>>), StrOf(<<97, 58, 98>>)}
ProductDetails == {StrOf(<<99>>), StrOf(<<98, 58, 99>>)}

handleCreateTransaction(productName, productDetails) ==
    \E timestamp \in Timestamps :
        addTransaction(NewTransaction(productName, productDetails, timestamp, UserKeys))

(* The AI audit.  analyzeChain is an async function: its body up to the     *)
(* await of generateContent runs inside the call, the rest when the        *)
(* response arrives.  audits keeps one record per call: the prompt sent    *)
(* (<<>> when no request is made), whether a response is still awaited,    *)
(* the text it returned, and as history the number of blocks the chain     *)
(* held at the call.                                                       *)
MaxAudits == 2   \* analyzeChain calls

\* t.signerPublicKey.substring(0, 10) + '...'; the keys of the model are
\* shorter than ten characters, so the substring is the key
SignerLabel(signerPublicKey) == <<signerPublicKey, "...">>

\* new Date(timestamp).toISOString(): the instant, written out
toISOString(timestamp) == <<"ISO", timestamp>>

\* analyzeChain: dataSummary
dataSummary(blocks) ==
    [b \in 1..Len(blocks) |->
        [index |-> blocks[b].header.index,
         timestamp |-> toISOString(blocks[b].header.timestamp),
         transactions |->
             [t \in 1..Len(blocks[b].transactions) |->
                 [product |-> blocks[b].transactions[t].productName,
                  details |-> blocks[b].transactions[t].details,
                  signer |-> SignerLabel(
                      blocks[b].transactions[t].signerPublicKey)]]]]

\* analyzeChain: the prompt, fixed text around JSON.stringify(dataSummary)
AuditPrompt(blocks) ==
    <<"Act as a Senior Supply Chain Auditor.", dataSummary(blocks)>>

NoKeyText == <<"API Key not configured. AI Analysis unavailable.">>
NoAnalysisText == <<"No analysis generated.">>
FailedText == <<"Failed to perform AI Audit. Please check console logs.">>

\* response.text of the request numbered n: a text about the prompt it
\* was sent; the texts of different requests are told apart
ResponseText(n, prompt) == <<"AI Audit Report", n, prompt>>

\* how a request ends: text returned, empty text returned, exception
Outcomes == {"text", "empty", "error"}

\* faulty variant: the summary in the report is that of the chain as it is
\* when the response is handled
analyzeChainResult_ReadsChainLate(n, audit, outcome, blocks) ==
    IF audit.prompt = <<>> THEN NoKeyText
    ELSE CASE outcome = "text" -> ResponseText(n, AuditPrompt(blocks))
           [] outcome = "empty" -> NoAnalysisText
           [] outcome = "error" -> FailedText

\* what analyzeChain returns for the call numbered n when it ends with
\* outcome, blocks being the chain at that time
analyzeChainResult(n, audit, outcome, blocks) ==
    IF audit.prompt = <<>> THEN NoKeyText
    ELSE CASE outcome = "text" -> ResponseText(n, audit.prompt[1])
           [] outcome = "empty" -> NoAnalysisText
           [] outcome = "error" -> FailedText

\* runAIAudit up to the await of a response: setIsAuditing(true), then
\* analyzeChain up to its own await, the request built from blocks and
\* sent.  Without a key analyzeChain returns at once and nothing is
\* awaited but an already resolved promise: the rest of runAIAudit runs
\* before any other handler can, so the call is over within the step.
runAIAudit(blocks) ==
    /\ Len(audits) < MaxAudits
    /\ IF API_KEY
       THEN /\ isAuditing' = TRUE
            /\ audits' = Append(audits,
                                [blocks  |-> Len(blocks),
                                 prompt  |-> <<AuditPrompt(blocks)>>,
                                 pending |-> TRUE,
                                 result  |-> <<>>])
            /\ auditResult' = auditResult
       ELSE /\ isAuditing' = FALSE
            /\ audits' = Append(audits,
                                [blocks  |-> Len(blocks),
                                 prompt  |-> <<>>,
                                 pending |-> FALSE,
                                 result  |-> <<NoKeyText>>])
            /\ auditResult' = NoKeyText
    /\ UNCHANGED <<autoAudit, API_KEY>>

\* the "Run AI Audit" button, disabled while isAuditing
clickRunAIAudit ==
    /\ isAuditing = FALSE
    /\ runAIAudit(chain)
    /\ UNCHANGED <<ledgerVars, merkleVars, treeVars>>

\* the rest of runAIAudit once the response to request n is there and
\* analyzeChain has returned: setAuditResult(result); setIsAuditing(false).
\* Responses arrive in any order
awaitAnalyzeChain(n, outcome) ==
    /\ audits[n].pending
    /\ LET result == analyzeChainResult(n, audits[n], outcome, chain) IN
       /\ auditResult' = result
       /\ audits' = [audits EXCEPT ![n].pending = FALSE, ![n].result = <<result>>]
    /\ isAuditing' = FALSE
    /\ UNCHANGED <<autoAudit, API_KEY>>
    /\ UNCHANGED <<ledgerVars, merkleVars, treeVars>>

\* the "Auto-Audit New Blocks" checkbox
setAutoAudit(checked) ==
    /\ checked # autoAudit
    /\ autoAudit' = checked
    /\ UNCHANGED <<isAuditing, auditResult, audits, API_KEY>>
    /\ UNCHANGED <<ledgerVars, merkleVars, treeVars>>

\* as under external writes, one clock reading and one nonce stand for the
\* values mining picks; with autoAudit set runAIAudit is called on the
\* chain that holds the new block
handleMine ==
    /\ MineLedger(TamperClock, TamperNonces)
    /\ IF autoAudit THEN runAIAudit(chain') ELSE UNCHANGED auditVars
    /\ UNCHANGED <<merkleVars, treeVars>>

handleRevoke(revokeKeyInput) ==
    /\ revokeKeyInput # ""
    /\ revokeKey(revokeKeyInput)

NextApp ==
    \/ \E productName \in ProductNames, productDetails \in ProductDetails :
          handleCreateTransaction(productName, productDetails)
    \/ handleMine
    \/ \E revokeKeyInput \in {UserKeys.publicKey} : handleRevoke(revokeKeyInput)

SpecApp == Init /\ [][NextApp]_vars

\* the transactions the ledger holds: those of the blocks, then the pool
LedgerTransactions == ChainTransactions(chain) \o pendingTransactions

\* C28: the id of a transaction is the hash of productName, ":", details,
\* ":" and the timestamp joined as they are, so two transactions whose
\* colon-joined texts and timestamps coincide have the same id even when
\* their (productName, details) pairs differ.
C28_ColonJoinedIdCollides ==
    \A i \in 1..Len(accepted) : \A j \in 1..Len(accepted) :
        LET t == accepted[i]
            u == accepted[j]
        IN  /\ t.id = hashData(t.productName \o Colon \o t.details \o Colon
                               \o NumToString(t.timestamp))
            /\ (/\ t.productName \o Colon \o t.details
                      = u.productName \o Colon \o u.details
                /\ t.timestamp = u.timestamp) => t.id = u.id

\* ("a:b", "c") and ("a", "b:c") were submitted at the same instant and
\* carry one id
C28_Witness ==
    /\ Len(accepted) >= 2
    /\ accepted[1].productName = StrOf(<<97, 58, 98>>)
    /\ accepted[1].details = StrOf(<<99>>)
    /\ accepted[2].productName = StrOf(<<97>>)
    /\ accepted[2].details = StrOf(<<98, 58, 99>>)
    /\ accepted[1].id = accepted[2].id

C30_GenesisFixed ==
    /\ /\ Len(chain) = 1
       /\ chain[1].header.index = 0
       /\ chain[1].header.previousHash = StrOf(<<48>>)
       /\ chain[1].header.nonce = 0
       /\ chain[1].transactions = <<>>
       /\ pendingTransactions = <<>>
       /\ revokedKeys = {}
    /\ [][/\ Len(chain') >= 1
          /\ chain'[1] = chain[1]]_vars

\* two blocks have been mined on the genesis block of the later clock
\* reading, with a key revoked and a transaction mined
C30_Witness ==
    /\ last.op = "minePendingTransactions"
    /\ Len(chain) = 3
    /\ chain[1] = createGenesisBlock(2)
    /\ chain[2].transactions # <<>>
    /\ revokedKeys = Keys

(***************************************************************************)
(* The genesis block under isChainValid.                                   *)
(***************************************************************************)
\* the chain with its genesis block overwritten by block g
WithGenesis(ch, g) == [ch EXCEPT ![1] = g]

\* the genesis block with one of its fields other than the stored hash
\* overwritten, or with a transaction put into its empty list
GenesisRewrites(g) ==
    {TamperBlock(g, field, 1) : field \in HeaderFields}
        \cup {[g EXCEPT !.transactions = <<tx>>] : tx \in TxUniverse}

\* C31: the genesis block is never re-checked: on a chain of length 1
\* isChainValid() is true whatever the genesis block holds, and on a longer
\* chain its result is the same after the genesis block's index, timestamp,
\* merkleRoot, nonce, previousHash or transactions are overwritten; the
\* genesis block's stored hash alone is read, by block 1's linkage check.
C31_GenesisNeverRechecked ==
    /\ \A g \in GenesisRewrites(chain[1]) :
          isChainValid(WithGenesis(chain, g)) = isChainValid(chain)
    /\ Len(chain) = 1 =>
          /\ isChainValid(chain)
          /\ isChainValid(WithGenesis(chain, TamperBlock(chain[1], "hash", 1)))
    /\ (Len(chain) > 1 /\ isChainValid(chain)) =>
          ~isChainValid(WithGenesis(chain, TamperBlock(chain[1], "hash", 1)))
    /\ (/\ last.op = "isChainValid"
        /\ tampered # <<>>
        /\ tampered[1].block = 0
        /\ tampered[1].field # "hash") => last.ok = TRUE

\* isChainValid has returned true on a three-block chain whose genesis
\* timestamp was overwritten after the blocks were mined
C31_Witness ==
    /\ last.op = "isChainValid"
    /\ last.ok = TRUE
    /\ Len(chain) = 3
    /\ tampered = <<[block |-> 0, field |-> "timestamp"]>>
    /\ chain[1].hash # calculateBlockHash(chain[1])

(***************************************************************************)
(* A mined block's transaction list written to from outside.               *)
(***************************************************************************)
RemoveAt(txs, k) == SubSeq(txs, 1, k - 1) \o SubSeq(txs, k + 1, Len(txs))

\* tx put in after position k (k = 0: in front)
InsertAt(txs, k, tx) ==
    SubSeq(txs, 1, k) \o <<tx>> \o SubSeq(txs, k + 1, Len(txs))

SwapAt(txs, k, l) == [txs EXCEPT ![k] = txs[l], ![l] = txs[k]]

\* the sequences an outside write can put in place of txs: one id changed,
\* one transaction removed, inserted or duplicated, two swapped, or any
\* short sequence of transactions
TxListRewrites(txs) ==
    {[txs EXCEPT ![k] = TamperTx(@, "tx.id")] : k \in 1..Len(txs)}
        \cup {RemoveAt(txs, k) : k \in 1..Len(txs)}
        \cup {InsertAt(txs, k, tx) : k \in 0..Len(txs), tx \in MerkleTxs}
        \cup {InsertAt(txs, k, txs[k]) : k \in 1..Len(txs)}
        \cup {SwapAt(txs, k, l) : k, l \in 1..Len(txs)}
        \cup SeqsUpTo(MerkleTxs, MaxTxs)

\* the chain with the transaction list of its block at position i overwritten
WithTransactions(ch, i, txs) == [ch EXCEPT ![i].transactions = txs]

\* C33: replacing the transaction sequence of a mined block (index >= 1) by
\* any sequence whose list of ids differs from the original, the header and
\* the stored hash left as they were, makes isChainValid() return false.
C33_TxListTamperDetected ==
    \A i \in 2..Len(chain) :
        \A txs \in TxListRewrites(chain[i].transactions) :
            TxIds(txs) # TxIds(chain[i].transactions) =>
                isChainValid(WithTransactions(chain, i, txs)) = FALSE

(***************************************************************************)
(* Verification of a target that is in the sequence or not.                *)
(***************************************************************************)
\* C34: a target that is the id of no transaction of seq never verifies
\* with the proof the engine returns for it: verifyMerkleProof(target,
\* getMerkleProof(seq, target), getMerkleRoot(seq)) is false, for the empty
\* and the single-element seq and for targets equal to a node or the root.
C34_AbsentTargetNeverVerifies ==
    (/\ mValid # <<>>
     /\ ~TargetPresent
     /\ mProof[1] = getMerkleProof(mTransactions, mTarget)
     /\ mRoot[1] = getMerkleRoot(mTransactions)) => mValid[1] = FALSE

(***************************************************************************)
(* The length of a proof.                                                  *)
(***************************************************************************)
\* how many times n is replaced by ceil(n/2) until 1 is reached
RECURSIVE HalvingsToOne(_)
HalvingsToOne(n) == IF n > 1 THEN 1 + HalvingsToOne((n + 1) \div 2) ELSE 0

\* C35: for a sequence of n >= 1 transactions and a member target,
\* getMerkleProof returns one step per reduction level, as many as the
\* times n is replaced by ceil(n/2) to reach 1; the length is the same for
\* every member of the sequence and 0 for a single-transaction sequence.
C35_ProofLengthIsLevelCount ==
    (mProof # <<>> /\ TargetPresent) =>
        /\ Len(mProof[1]) = HalvingsToOne(Len(mTransactions))
        /\ \A k \in 1..Len(mTransactions) :
              Len(getMerkleProof(mTransactions, mTransactions[k].id))
                  = Len(mProof[1])
        /\ Len(mTransactions) = 1 => mProof[1] = <<>>

\* the proof of the fifth of five different-looking leaves, unpaired at
\* the first two levels, has three steps
C35_Witness ==
    /\ mProof # <<>>
    /\ Len(mTransactions) = 5
    /\ mTransactions[5].id = mTarget
    /\ \A k \in 1..4 : mTransactions[k].id # mTarget
    /\ Len(mProof[1]) = 3

(***************************************************************************)
(* The while loops of getMerkleRoot and getMerkleProof, one iteration per  *)
(* step: loop holds the local variables hashes, index and proof between    *)
(* iterations, loop.pc the function being run.  getMerkleRoot is run       *)
(* first, then getMerkleProof, each once, on the sequence and target drawn *)
(* at the start.  The inner for loop, bounded by the length of the level,  *)
(* is one step.                                                            *)
(***************************************************************************)
\* faulty variant: the loop runs while any hash is left
LoopContinues_WhileNonEmpty(hashes) == Len(hashes) > 0

\* while (hashes.length > 1)
LoopContinues(hashes) == Len(hashes) > 1

InitLoop == InitMerkle

\* getMerkleRoot up to its loop: the early return, or hashes = the ids
enterGetMerkleRoot ==
    /\ loop.pc = "idle"
    /\ mRoot = <<>>
    /\ IF Len(mTransactions) = 0
       THEN /\ mRoot' = <<hashData(EmptyString)>>
            /\ loop' = loop
       ELSE /\ mRoot' = mRoot
            /\ loop' = [loop EXCEPT !.pc = "getMerkleRoot",
                                    !.hashes = TxIds(mTransactions)]
    /\ UNCHANGED <<mTransactions, mTarget, mProof, mValid, mAltered, mLevels, mTree>>
    /\ UNCHANGED <<ledgerVars, auditVars>>

\* one iteration: hashes = nextLevel
stepGetMerkleRoot ==
    /\ loop.pc = "getMerkleRoot"
    /\ LoopContinues(loop.hashes)
    /\ loop' = [loop EXCEPT !.hashes = RootNextLevel(loop.hashes)]
    /\ UNCHANGED <<merkleVars, mLevels, mTree>>
    /\ UNCHANGED <<ledgerVars, auditVars>>

\* return hashes[0]
returnGetMerkleRoot ==
    /\ loop.pc = "getMerkleRoot"
    /\ ~LoopContinues(loop.hashes)
    /\ mRoot' = <<loop.hashes[1]>>
    /\ loop' = LoopIdle
    /\ UNCHANGED <<mTransactions, mTarget, mProof, mValid, mAltered, mLevels, mTree>>
    /\ UNCHANGED <<ledgerVars, auditVars>>

\* getMerkleProof up to its loop: the early return for an absent target,
\* or hashes = the ids, index = the target's position, proof = []
enterGetMerkleProof ==
    /\ loop.pc = "idle"
    /\ mRoot # <<>>
    /\ mProof = <<>>
    /\ IF findIndex(TxIds(mTransactions), mTarget) = -1
       THEN /\ mProof' = <<(<<>>)>>
            /\ loop' = loop
       ELSE /\ mProof' = mProof
            /\ loop' = [loop EXCEPT !.pc = "getMerkleProof",
                                    !.hashes = TxIds(mTransactions),
                                    !.index = findIndex(TxIds(mTransactions), mTarget)]
    /\ UNCHANGED <<mTransactions, mTarget, mRoot, mValid, mAltered, mLevels, mTree>>
    /\ UNCHANGED <<ledgerVars, auditVars>>

\* one iteration: a step is pushed, hashes = nextLevel, index is halved
stepGetMerkleProof ==
    /\ loop.pc = "getMerkleProof"
    /\ LoopContinues(loop.hashes)
    /\ loop' = [loop EXCEPT !.hashes = ProofNextLevel(loop.hashes),
                            !.index = loop.index \div 2,
                            !.proof = Append(loop.proof,
                                             ProofStep(loop.hashes, loop.index))]
    /\ UNCHANGED <<merkleVars, mLevels, mTree>>
    /\ UNCHANGED <<ledgerVars, auditVars>>

\* return proof
returnGetMerkleProof ==
    /\ loop.pc = "getMerkleProof"
    /\ ~LoopContinues(loop.hashes)
    /\ mProof' = <<loop.proof>>
    /\ loop' = LoopIdle
    /\ UNCHANGED <<mTransactions, mTarget, mRoot, mValid, mAltered, mLevels, mTree>>
    /\ UNCHANGED <<ledgerVars, auditVars>>

NextLoop ==
    \/ enterGetMerkleRoot
    \/ stepGetMerkleRoot
    \/ returnGetMerkleRoot
    \/ enterGetMerkleProof
    \/ stepGetMerkleProof
    \/ returnGetMerkleProof

\* a function that was called keeps running: the code is synchronous
SpecLoop == InitLoop /\ [][NextLoop]_vars /\ WF_vars(NextLoop)

\* both functions have returned
LoopsReturned == loop.pc = "idle" /\ mRoot # <<>> /\ mProof # <<>>

\* C36: getMerkleRoot and getMerkleProof terminate on every finite
\* transaction sequence: each loop iteration replaces a level of length
\* m > 1 by a level of length ceil(m/2) < m, so both functions return
\* after finitely many levels, with a single hash left when the loop ran.
C36_MerkleLoopsTerminate ==
    /\ [][(loop.pc # "idle" /\ loop'.pc = loop.pc) =>
             /\ Len(loop.hashes) > 1
             /\ Len(loop'.hashes) = (Len(loop.hashes) + 1) \div 2
             /\ Len(loop'.hashes) < Len(loop.hashes)]_vars
    /\ [][(loop.pc # "idle" /\ loop'.pc = "idle") => Len(loop.hashes) = 1]_vars
    /\ <>LoopsReturned
    /\ [](LoopsReturned =>
             /\ mRoot[1] = getMerkleRoot(mTransactions)
             /\ mProof[1] = getMerkleProof(mTransactions, mTarget))

\* the loop of getMerkleProof is left with a single hash after three
\* iterations over five leaves
C36_Witness ==
    /\ loop.pc = "getMerkleProof"
    /\ Len(mTransactions) = 5
    /\ Len(loop.hashes) = 1
    /\ Len(loop.proof) = 3
    /\ mRoot = <<loop.hashes[1]>>

(***************************************************************************)
(* The tree builders of the visualisation: buildMerkleTreeData of          *)
(* services/blockchain.ts and buildTree of components/MerkleTreeViz.tsx.   *)
(* A null result is the empty sequence, a result r that is not null is     *)
(* r itself (levels) or <<r>> (a node).  A node is kept as its fullHash    *)
(* and its children; its name, a display label cut from the first six      *)
(* characters of fullHash, is left out: nothing reads it but the drawing.   *)
(***************************************************************************)
\* the pairing loop inside buildMerkleTreeData
DataNextLevel(currentLevel) ==
    [k \in 1..((Len(currentLevel) + 1) \div 2) |->
        LET i == 2 * (k - 1) IN
        IF i + 1 < Len(currentLevel)
        THEN hashData(currentLevel[i + 1] \o currentLevel[i + 2])
        ELSE hashData(currentLevel[i + 1] \o currentLevel[i + 1])]

RECURSIVE DataLoop(_, _)
DataLoop(currentLevel, levels) ==
    IF Len(currentLevel) > 1
    THEN DataLoop(DataNextLevel(currentLevel),
                  Append(levels, DataNextLevel(currentLevel)))
    ELSE levels

buildMerkleTreeData(transactions) ==
    IF Len(transactions) = 0 THEN <<>>
    ELSE DataLoop(TxIds(transactions), <<TxIds(transactions)>>)

\* the leaves buildTree starts from
TreeLeaves(txs) ==
    [k \in 1..Len(txs) |-> [fullHash |-> txs[k].id, children |-> <<>>]]

\* faulty variant: a node without a pair is passed up as it is
TreeNextLevel_PromotesUnpaired(currentLevel) ==
    [k \in 1..((Len(currentLevel) + 1) \div 2) |->
        LET i    == 2 * (k - 1)
            left == currentLevel[i + 1]
        IN  IF i + 1 < Len(currentLevel)
            THEN [fullHash |-> hashData(left.fullHash
                                        \o currentLevel[i + 2].fullHash),
                  children |-> <<left, currentLevel[i + 2]>>]
            ELSE left]

\* the pairing loop inside buildTree; `left === right` compares object
\* identity and holds exactly when the node has no pair
TreeNextLevel(currentLevel) ==
    [k \in 1..((Len(currentLevel) + 1) \div 2) |->
        LET i      == 2 * (k - 1)
            paired == i + 1 < Len(currentLevel)
            left   == currentLevel[i + 1]
            right  == IF paired THEN currentLevel[i + 2] ELSE currentLevel[i + 1]
        IN  [fullHash |-> hashData(left.fullHash \o right.fullHash),
             children |-> IF paired THEN <<left, right>> ELSE <<left>>]]

RECURSIVE TreeLoop(_)
TreeLoop(currentLevel) ==
    IF Len(currentLevel) > 1
    THEN TreeLoop(TreeNextLevel(currentLevel))
    ELSE currentLevel[1]

buildTree(txs) ==
    IF Len(txs) = 0 THEN <<>> ELSE <<TreeLoop(TreeLeaves(txs))>>

InitViz == InitMerkle

callBuildMerkleTreeData ==
    /\ mLevels = <<>>
    /\ mLevels' = <<buildMerkleTreeData(mTransactions)>>
    /\ UNCHANGED <<merkleVars, loop, mTree>>
    /\ UNCHANGED <<ledgerVars, auditVars>>

callBuildTree ==
    /\ mTree = <<>>
    /\ mTree' = <<buildTree(mTransactions)>>
    /\ UNCHANGED <<merkleVars, loop, mLevels>>
    /\ UNCHANGED <<ledgerVars, auditVars>>

NextViz ==
    \/ callGetMerkleRoot
    \/ callBuildMerkleTreeData
    \/ callBuildTree

SpecViz == InitViz /\ [][NextViz]_vars

\* C37: the three tree reductions agree: for every non-empty transaction
\* sequence the single element of the last level buildMerkleTreeData
\* returns and the fullHash of the root node buildTree builds both equal
\* getMerkleRoot of the sequence, and the levels getMerkleProof computes
\* (it computes them for a target in the sequence) are the levels
\* buildMerkleTreeData returns.
C37_TreeReductionsAgree ==
    Len(mTransactions) >= 1 =>
        /\ mLevels # <<>> =>
              LET levels == mLevels[1] IN
              /\ Len(levels) >= 1
              /\ Len(levels[Len(levels)]) = 1
              /\ levels[Len(levels)][1] = getMerkleRoot(mTransactions)
              /\ mRoot # <<>> => levels[Len(levels)][1] = mRoot[1]
              /\ TargetPresent => ProofLevels(TxIds(mTransactions)) = levels
        /\ mTree # <<>> =>
              /\ Len(mTree[1]) = 1
              /\ mTree[1][1].fullHash = getMerkleRoot(mTransactions)
              /\ mRoot # <<>> => mTree[1][1].fullHash = mRoot[1]

\* the three functions have been called on five leaves of which the last
\* differs from the fourth: four levels, the root shown by all three
C37_Witness ==
    /\ Len(mTransactions) = 5
    /\ mTransactions[5].id # mTransactions[4].id
    /\ TargetPresent
    /\ mRoot # <<>> /\ mLevels # <<>> /\ mTree # <<>>
    /\ Len(mLevels[1]) = 4
    /\ mLevels[1][4] = mRoot
    /\ mTree[1][1].fullHash = mRoot[1]
    /\ Len(mTree[1][1].children) = 2
    /\ Len(mTree[1][1].children[2].children) = 1

(***************************************************************************)
(* The read-only operations called between the mutations of the ledger:    *)
(* isChainValid, getMerkleRoot on a list of the ledger (the pool or the    *)
(* transactions of a block), and handleVerifyTransaction of App.tsx, which *)
(* calls getMerkleProof and verifyMerkleProof on a block's transactions    *)
(* and stored root and keeps the outcome as verificationData (here         *)
(* mTarget, mProof, mValid, next to the arguments mTransactions, mRoot).   *)
(***************************************************************************)
\* the list of the ledger a Merkle function is handed: the pool (source 0)
\* or the transactions of the block at position source
ArgumentOf(ch, pool, source) ==
    IF source = 0 THEN pool ELSE ch[source].transactions

\* faulty variant: the function works on the array it is given and empties it
callGetMerkleRootOf_InPlace(source) ==
    /\ last' = Call("getMerkleRoot",
                    ArgumentOf(chain, pendingTransactions, source), "", TRUE,
                    <<[source |-> source,
                       result |-> getMerkleRoot(
                           ArgumentOf(chain, pendingTransactions, source))]>>)
    /\ pendingTransactions' = IF source = 0 THEN <<>> ELSE pendingTransactions
    /\ chain' = IF source = 0 THEN chain
                ELSE [chain EXCEPT ![source].transactions = <<>>]
    /\ UNCHANGED <<revokedKeys, revokeHistory, accepted, tampered>>
    /\ UNCHANGED <<merkleVars, treeVars, auditVars>>

\* getMerkleRoot(list); last holds the argument as it is at the return, and
\* last.block the source and the result
callGetMerkleRootOf(source) ==
    /\ last' = Call("getMerkleRoot",
                    ArgumentOf(chain, pendingTransactions, source), "", TRUE,
                    <<[source |-> source,
                       result |-> getMerkleRoot(
                           ArgumentOf(chain, pendingTransactions, source))]>>)
    /\ UNCHANGED <<chain, pendingTransactions, revokedKeys, revokeHistory, accepted,
                   tampered>>
    /\ UNCHANGED <<merkleVars, treeVars, auditVars>>

\* handleVerifyTransaction(tx, blockTxs, blockRoot) for the transaction at
\* position k of the block at position i
handleVerifyTransaction(i, k) ==
    LET tx        == chain[i].transactions[k]
        blockTxs  == chain[i].transactions
        blockRoot == chain[i].header.merkleRoot
        proof     == getMerkleProof(blockTxs, tx.id)
        isValid   == verifyMerkleProof(tx.id, proof, blockRoot)
    IN  /\ mTransactions' = blockTxs
        /\ mRoot' = <<blockRoot>>
        /\ mTarget' = tx.id
        /\ mProof' = <<proof>>
        /\ mValid' = <<isValid>>
        /\ last' = Call("handleVerifyTransaction", <<tx>>, "", isValid,
                        <<[source |-> i, result |-> proof]>>)
        /\ UNCHANGED <<chain, pendingTransactions, revokedKeys, revokeHistory,
                       accepted, tampered>>
        /\ UNCHANGED <<mAltered, treeVars, auditVars>>

NextRead ==
    \/ \E tx \in TxUniverse : addTransaction(tx)
    \/ minePendingTransactionsAt(TamperClock, TamperNonces)
    \/ \E publicKey \in Keys : revokeKey(publicKey)
    \/ callIsChainValid
    \/ \E source \in 0..Len(chain) : callGetMerkleRootOf(source)
    \/ \E i \in 1..Len(chain) :
         \E k \in 1..Len(chain[i].transactions) : handleVerifyTransaction(i, k)

SpecRead == Init /\ [][NextRead]_vars

ReadOps == {"isChainValid", "getMerkleRoot", "handleVerifyTransaction"}

\* C38: isChainValid, getMerkleRoot, getMerkleProof and verifyMerkleProof
\* leave the chain, the pool, the revoked set and the sequences they are
\* handed unchanged, so that what any later operation returns or does
\* (addTransaction, minePendingTransactions, isChainValid, the Merkle
\* functions) is the same after the call as before it.
C38_ReadsChangeNothing ==
    [][last'.op \in ReadOps =>
          /\ chain' = chain
          /\ pendingTransactions' = pendingTransactions
          /\ revokedKeys' = revokedKeys
          /\ last'.op = "getMerkleRoot" =>
                last'.tx = ArgumentOf(chain, pendingTransactions,
                                      last'.block[1].source)
          /\ last'.op = "handleVerifyTransaction" =>
                /\ mTransactions' = chain[last'.block[1].source].transactions
                /\ mProof' = <<getMerkleProof(mTransactions', mTarget')>>
          /\ isChainValid(chain') = isChainValid(chain)
          /\ \A tx \in TxUniverse :
                addTransactionAccepts(revokedKeys', tx)
                    = addTransactionAccepts(revokedKeys, tx)
          /\ \A t \in TamperClock, n \in TamperNonces :
                MinedBlock(chain', pendingTransactions', t, n)
                    = MinedBlock(chain, pendingTransactions, t, n)]_vars

\* a transaction of block 1 was verified while the pool held a transaction
\* of a revoked signer, and getMerkleRoot was then called on that pool
C38_Witness ==
    /\ last.op = "getMerkleRoot"
    /\ last.block[1].source = 0
    /\ Len(pendingTransactions) = 1
    /\ pendingTransactions[1].signerPublicKey \in revokedKeys
    /\ mValid = <<TRUE>>
    /\ Len(chain) = 2
    /\ mTransactions = chain[2].transactions

(***************************************************************************)
(* The audit panel of App.tsx next to the ledger: transactions are         *)
(* submitted and blocks mined while audit requests are awaited.            *)
(***************************************************************************)
InitAudit ==
    /\ InitLedger
    /\ IdleMerkle
    /\ IdleTree
    /\ isAuditing = FALSE
    /\ auditResult = EmptyString
    /\ autoAudit = FALSE
    /\ audits = <<>>
    /\ API_KEY \in BOOLEAN

NextAudit ==
    \/ \E tx \in {TxA} : addTransaction(tx)
    \/ handleMine
    \/ clickRunAIAudit
    \/ \E checked \in BOOLEAN : setAutoAudit(checked)
    \/ \E n \in 1..Len(audits), outcome \in Outcomes : awaitAnalyzeChain(n, outcome)

SpecAudit == InitAudit /\ [][NextAudit]_vars

\* the analyzeChain calls still awaited
InFlight == {n \in 1..Len(audits) : audits[n].pending}

\* the chain as it was when analyzeChain call n was made; blocks are only
\* ever appended here
ChainAtCall(n) == SubSeq(chain, 1, audits[n].blocks)

\* C32: the audit reads a snapshot of the chain at call time: the summary
\* analyzeChain sends, and the one its report is about, is that of the
\* chain as it was when analyzeChain was called, whatever was mined or
\* submitted while the request was awaited; and a pending request neither
\* blocks mining or submitting nor loses or reorders a transaction.
C32_AuditReadsSnapshot ==
    /\ \A n \in 1..Len(audits) :
          /\ audits[n].blocks <= Len(chain)
          /\ audits[n].prompt # <<>> =>
                audits[n].prompt[1] = AuditPrompt(ChainAtCall(n))
          /\ (audits[n].result # <<>> /\ audits[n].result[1][1] = "AI Audit Report")
                => audits[n].result[1] = ResponseText(n, AuditPrompt(ChainAtCall(n)))
    /\ LedgerTransactions = accepted
    /\ isChainValid(chain)
    /\ (InFlight # {} /\ Len(chain) < MaxChain
                      /\ (autoAudit => Len(audits) < MaxAudits))
          => ENABLED handleMine
    /\ (InFlight # {} /\ TxCount(chain) + Len(pendingTransactions) < MaxTxs)
          => ENABLED addTransaction(TxA)

\* the report of audit 1, requested on the genesis block alone, is on
\* display after a block holding a transaction was mined and another
\* transaction was submitted while the request was awaited
C32_Witness ==
    /\ Len(audits) >= 1
    /\ audits[1].blocks = 1
    /\ auditResult = ResponseText(1, AuditPrompt(<<chain[1]>>))
    /\ Len(chain) = 2
    /\ Len(chain[2].transactions) = 1
    /\ Len(pendingTransactions) = 1
    /\ last.op = "addTransaction"
    /\ AuditPrompt(chain) # AuditPrompt(<<chain[1]>>)

\* C39: when audits overlap, isAuditing stays true until every started
\* audit has completed, and once all have completed the auditResult on
\* display is the result of the audit that was started last, whatever
\* order the responses arrive in.
C39_OverlappingAudits ==
    /\ InFlight # {} => isAuditing = TRUE
    /\ (audits # <<>> /\ InFlight = {}) =>
          auditResult = audits[Len(audits)].result[1]

====
